---------------------------- MODULE Spec2Model ----------------------------
(***************************************************************************)
(* A model of the Code Busters agent in src/code-busters/solution.py: the  *)
(* world model (Buster, Ghost, Base), the nine strategies, the selector    *)
(* Buster.step, the round update ParsedMap.read_round and the forward      *)
(* step Buster.next_step_between.                                          *)
(*                                                                         *)
(* Coordinates, ranges and speeds are the program's own.  Python integers  *)
(* are unbounded and TLC's are 32-bit, so every product below is kept      *)
(* under 2^31 (squared distances in the arena are at most 337 000 000).    *)
(* The float expressions int(s + k*d/sqrt(D)) are computed in exact        *)
(* arithmetic: for arena-sized operands a double is accurate to about      *)
(* 2e-12 while k*d/sqrt(D) is an integer or further than that from one,    *)
(* so the truncation of the double is the truncation of the real.          *)
(***************************************************************************)
EXTENDS Integers, Sequences, FiniteSets, TLC

VARIABLES
    ally_team,  \* ParsedMap.ally_team
    busters,    \* ParsedMap.team0 + team1, by id: the fields of each Buster
    ghosts,     \* ParsedMap.ghosts, by id: the fields of each Ghost
    seek,       \* each allied unit's SeekingStrategy: seek_pos, counter, corners
    turn,       \* MainLoop.start: 0 = read_round is next, k = the k-th ally steps next
    round,      \* number of read_round calls made
    out,        \* commands written to the controller by the latest Buster.step
    evald,      \* strategies whose is_applicable the latest Buster.step called
    actor,      \* id of the unit of the latest Buster.step (NoOne before any)
    probe       \* operands and result of a function applied on its own

vars == <<ally_team, busters, ghosts, seek, turn, round, out, evald, actor, probe>>

---------------------------------------------------------------------------
\* Program constants.

Width == 16000
Height == 9000
BaseFar == 1600
StunFar == 1760
BustNear == 900
BustFar == 1760
Speed == 800
FullCharge == 20
FleeCharge == 19
SeekCount == 5
RandomWidth == 160000

NoOne == 0 - 1
NoGhost == 0 - 1

\* Base.range, Buster.stun_range, Buster.bust_range: (close, far)
BaseRange == <<0, BaseFar>>
StunRange == <<0, StunFar>>
BustRange == <<BustNear, BustFar>>

---------------------------------------------------------------------------
\* Geometry: MapObject.

\* MapObject.distance_from: the SQUARED distance
distance_from(p, q) ==
    LET dx == p[1] - q[1]
        dy == p[2] - q[2]
    IN  dx * dx + dy * dy

\* MapObject.is_in_range: close*close <= d2 < far*far
is_in_range(p, q, scope) ==
    /\ scope[1] * scope[1] <= distance_from(p, q)
    /\ distance_from(p, q) < scope[2] * scope[2]

\* MapObject.is_within
is_within(p, q, radius) == is_in_range(p, q, <<0, radius>>)

---------------------------------------------------------------------------
\* Exact arithmetic for k*|d|/sqrt(D).

Abs(x) == IF x < 0 THEN 0 - x ELSE x

\* Newton's iteration for the integer square root, from x >= floor(sqrt(D))
RECURSIVE SqrtDescent(_, _)
SqrtDescent(D, x) ==
    LET y == (x + D \div x) \div 2
    IN  IF y >= x THEN x ELSE SqrtDescent(D, y)

\* floor(sqrt(D)) for 0 <= D < 2^31
ISqrt(D) == IF D = 0 THEN 0 ELSE SqrtDescent(D, 46340)

IsSquare(D) == ISqrt(D) * ISqrt(D) = D

\* n * sqrt(D) <= M, for n >= 0, M >= 0, 0 < D < 2^31: with M = q*n + r,
\* D <= (M/n)^2 = q^2 + (2*q*r + r^2/n)/n.
LeqRoot(n, M, D) ==
    \/ n = 0
    \/ LET q == M \div n
           r == M % n
       IN  \/ q > 46340
           \/ D - q * q <= (2 * q * r + (r * r) \div n) \div n

\* floor(M / sqrt(D)), for M >= 0 and D > 0, given R = floor(sqrt(D)): it lies
\* between M/(R+1) and M/R
FloorDivRoot(M, D, R) ==
    LET hi == M \div R
    IN  IF LeqRoot(hi, M, D) THEN hi
        ELSE CHOOSE n \in (M \div (R + 1)) .. (hi - 1) :
                 LeqRoot(n, M, D) /\ ~LeqRoot(n + 1, M, D)

\* M / sqrt(D) is an integer
DivRootIsInt(M, D, R) == M = 0 \/ (R * R = D /\ M % R = 0)

\* int(s + q) for |q| between floor and floor + 1, of the sign of d, and equal
\* to floor when exact
TruncatedSum(s, d, floor, exact) ==
    LET ceil == IF exact THEN floor ELSE floor + 1
        lower == IF d >= 0 THEN s + floor ELSE s - ceil
        upper == IF d >= 0 THEN s + ceil ELSE s - floor
    IN  IF lower >= 0 THEN lower ELSE upper

\* int(s + k*d/sqrt(D)), given R = floor(sqrt(D)): Python's int() truncates the
\* sum toward zero
IntOfSum(s, k, d, D, R) ==
    TruncatedSum(s, d, FloorDivRoot(k * Abs(d), D, R), DivRootIsInt(k * Abs(d), D, R))

\* int(k*d/sqrt(D)), given R = floor(sqrt(D)): the quotient truncated toward zero
IntOfQuotient(k, d, D, R) ==
    IF d >= 0 THEN FloorDivRoot(k * d, D, R) ELSE 0 - FloorDivRoot(k * Abs(d), D, R)

---------------------------------------------------------------------------
\* Buster.next_step_between

\* next_step_between with the squared distance compared with speed itself
next_step_between_linear_test(start, end, speed) ==
    LET dx == end[1] - start[1]
        dy == end[2] - start[2]
        dist == dx * dx + dy * dy
        R == ISqrt(dist)
    IN  IF dist <= speed
        THEN end
        ELSE <<IntOfSum(start[1], speed, dx, dist, R), IntOfSum(start[2], speed, dy, dist, R)>>

\* next_step_between with the step divided by the squared distance
next_step_between_no_sqrt(start, end, speed) ==
    LET dx == end[1] - start[1]
        dy == end[2] - start[2]
        dist == dx * dx + dy * dy
    IN  IF dist <= speed * speed
        THEN end
        ELSE <<start[1] + (speed * dx) \div dist, start[2] + (speed * dy) \div dist>>

\* Buster.next_step_between
next_step_between(start, end, speed) ==
    LET dx == end[1] - start[1]
        dy == end[2] - start[2]
        dist == dx * dx + dy * dy
        R == ISqrt(dist)
    IN  IF dist <= speed * speed
        THEN end
        ELSE <<IntOfSum(start[1], speed, dx, dist, R), IntOfSum(start[2], speed, dy, dist, R)>>

---------------------------------------------------------------------------
\* The world model: ParsedMap, Base, Buster, Ghost.

\* players_per_team, as read by ParsedMap.read_initials: len(team0) = len(team1)
PlayersPerTeam == Cardinality(DOMAIN busters) \div 2

\* ParsedMap.team0, ParsedMap.team1: the ids, in list order
team0 == [i \in 1 .. PlayersPerTeam |-> i - 1]
team1 == [i \in 1 .. PlayersPerTeam |-> i - 1 + PlayersPerTeam]

\* ParsedMap.get_allies, ParsedMap.get_enemies, ParsedMap.get_ghosts
get_allies == IF ally_team # 0 THEN team1 ELSE team0
get_enemies == IF ally_team # 0 THEN team0 ELSE team1
get_ghosts == [i \in 1 .. Cardinality(DOMAIN ghosts) |-> i - 1]

\* Buster.base, given by read_initials: Base(pos=(0, 0)) or Base(pos=(16000, 9000))
BaseOf(id) == IF id < PlayersPerTeam THEN <<0, 0>> ELSE <<Width, Height>>

\* is_close_to with the far radius included
is_close_to_inclusive(basePos, p) == distance_from(basePos, p) <= BaseFar * BaseFar

\* Base.is_close_to
is_close_to(basePos, p) == is_in_range(basePos, p, BaseRange)

\* Buster.__init__ as called by read_initials
NewBuster ==
    [pos |-> <<0, 0>>, is_seen |-> FALSE, is_known |-> FALSE,
     captured_ghost |-> NoGhost, stun_charge |-> 0, stunned_counter |-> 0,
     busting_ghost |-> NoGhost]

\* Ghost.__init__ as called by read_initials
NewGhost ==
    [pos |-> <<0, 0>>, is_seen |-> FALSE, is_known |-> FALSE,
     stamina |-> 0, attacking_busters |-> 0]

\* Buster.is_stunned, Buster.has_captured_ghost
is_stunned(x) == x.stunned_counter # 0
has_captured_ghost(x) == x.captured_ghost # NoGhost

\* can_stun without the test of the charge
can_stun_any_charge(self, other) ==
    /\ ~is_stunned(other)
    /\ other.is_seen
    /\ is_in_range(self.pos, other.pos, StunRange)

\* Buster.can_stun
can_stun(self, other) ==
    /\ self.stun_charge >= FullCharge
    /\ ~is_stunned(other)
    /\ other.is_seen
    /\ is_in_range(self.pos, other.pos, StunRange)

\* Buster.can_bust
can_bust(self, ghost) ==
    ghost.is_seen /\ is_in_range(self.pos, ghost.pos, BustRange)

\* Buster.is_too_close_to
is_too_close_to(self, ghost) == is_within(self.pos, ghost.pos, BustRange[1])

\* Buster.step_towards
step_towards(self, goal) ==
    [self EXCEPT !.pos = next_step_between(self.pos, goal, Speed)]

\* the elements of sequence s that satisfy Test, in order
Filter(s, Test(_)) == SelectSeq(s, Test)

\* Python's min(seq, key): the first element whose key is least
MinBy(s, Key(_)) ==
    s[CHOOSE i \in 1 .. Len(s) :
        /\ \A j \in 1 .. Len(s) : Key(s[i]) <= Key(s[j])
        /\ \A j \in 1 .. i - 1 : Key(s[j]) > Key(s[i])]

\* MapActor.get_closest_of: the actors at the least distance, in order
get_closest_of(self, actors, G) ==
    LET d(g) == distance_from(self.pos, G[g].pos)
        IsMin(g) == \A j \in 1 .. Len(actors) : d(g) <= d(actors[j])
    IN  Filter(actors, IsMin)

---------------------------------------------------------------------------
\* The controller's commands.

move_to(pos, by) == [kind |-> "MOVE", arg |-> pos, by |-> by]
release(by) == [kind |-> "RELEASE", arg |-> <<>>, by |-> by]
stun(enemy, by) == [kind |-> "STUN", arg |-> <<enemy>>, by |-> by]
bust(ghost, by) == [kind |-> "BUST", arg |-> <<ghost>>, by |-> by]

---------------------------------------------------------------------------
\* The strategies.  Each is_applicable gives [ok, G, sel]: its result, the
\* ghosts after it ran (only InterceptStrategy's writes one) and the scratch
\* fields it leaves for execute (self.enemy, self.pos, self.ghost,
\* self.enemies).  Every scratch field is written by is_applicable before
\* execute reads it, so none is kept between turns.  Each execute gives
\* [B, G, S, cmd]: the busters, the ghosts, the unit's SeekingStrategy fields
\* and the command written.

\* the list with InterceptStrategy ahead of BackingStrategy
STRATEGIES_intercept_first ==
    <<"Stun", "Release", "Home", "Chase", "Bust", "Flee", "Intercept", "Back", "Seek">>

\* Buster.STRATEGIES
STRATEGIES ==
    <<"Stun", "Release", "Home", "Chase", "Bust", "Flee", "Back", "Intercept", "Seek">>

NoSel == [enemy |-> NoOne, pos |-> <<0, 0>>, ghost |-> NoGhost, enemies |-> <<>>]

\* StunStrategy.is_applicable taking the first enemy it can stun
StunStrategy_is_applicable_first(b, B, G) ==
    LET Stunnable(e) == can_stun(B[b], B[e])
        enemies == Filter(get_enemies, Stunnable)
    IN  IF enemies = <<>> THEN [ok |-> FALSE, G |-> G, sel |-> NoSel]
        ELSE [ok |-> TRUE, G |-> G, sel |-> [NoSel EXCEPT !.enemy = enemies[1]]]

\* StunStrategy.is_applicable
StunStrategy_is_applicable(b, B, G) ==
    LET Stunnable(e) == can_stun(B[b], B[e])
        enemies == Filter(get_enemies, Stunnable)
        Carrying(e) == has_captured_ghost(B[e])
        ghost_carrying_enemies == Filter(enemies, Carrying)
    IN  IF enemies = <<>> THEN [ok |-> FALSE, G |-> G, sel |-> NoSel]
        ELSE IF ghost_carrying_enemies # <<>>
        THEN [ok |-> TRUE, G |-> G, sel |-> [NoSel EXCEPT !.enemy = ghost_carrying_enemies[1]]]
        ELSE [ok |-> TRUE, G |-> G, sel |-> [NoSel EXCEPT !.enemy = enemies[1]]]

\* StunStrategy.execute leaving the stun charge as it is
StunStrategy_execute_keeps_charge(b, B, G, S, sel) ==
    [B |-> B, G |-> G, S |-> S, cmd |-> stun(sel.enemy, "Stun")]

\* StunStrategy.execute
StunStrategy_execute(b, B, G, S, sel) ==
    [B |-> [B EXCEPT ![b].stun_charge = 0], G |-> G, S |-> S,
     cmd |-> stun(sel.enemy, "Stun")]

\* ReleaseStrategy.is_applicable
ReleaseStrategy_is_applicable(b, B, G) ==
    [ok |-> B[b].captured_ghost # NoGhost /\ is_close_to(BaseOf(b), B[b].pos),
     G |-> G, sel |-> NoSel]

\* execute with the released ghost kept as known
ReleaseStrategy_execute_remembers(b, B, G, S, sel) ==
    [B |-> B, G |-> [G EXCEPT ![B[b].captured_ghost].is_known = TRUE], S |-> S,
     cmd |-> release("Release")]

\* ReleaseStrategy.execute
ReleaseStrategy_execute(b, B, G, S, sel) ==
    [B |-> B, G |-> [G EXCEPT ![B[b].captured_ghost].is_known = FALSE], S |-> S,
     cmd |-> release("Release")]

\* HomingStrategy.is_applicable
HomingStrategy_is_applicable(b, B, G) ==
    [ok |-> B[b].captured_ghost # NoGhost, G |-> G, sel |-> NoSel]

\* HomingStrategy.execute
HomingStrategy_execute(b, B, G, S, sel) ==
    [B |-> B, G |-> G, S |-> S, cmd |-> move_to(BaseOf(b), "Home")]

\* ChasingStrategy.enemy_keeps_ghost
enemy_keeps_ghost(enemy, buster, basePos) ==
    ~(can_stun(buster, enemy) \/ is_close_to(basePos, enemy.pos))

\* clone_buster.step_towards(clone_enemy.pos), clone_enemy having stepped
ChaseFollow(clone_buster, clone_enemy) ==
    [buster |-> step_towards(clone_buster, clone_enemy.pos), enemy |-> clone_enemy]

\* one pass of the body of the while loop of ChasingStrategy.is_applicable
ChaseIteration(clones, basePos) ==
    ChaseFollow(clones.buster, step_towards(clones.enemy, basePos))

\* the while loop of ChasingStrategy.is_applicable, on the two copies
RECURSIVE ChaseLoop(_, _)
ChaseLoop(clones, basePos) ==
    IF enemy_keeps_ghost(clones.enemy, clones.buster, basePos)
    THEN ChaseLoop(ChaseIteration(clones, basePos), basePos)
    ELSE clones

\* ChasingStrategy.ghost_carrying_enemies
ghost_carrying_enemies(B) ==
    LET Carrier(e) == B[e].is_known /\ has_captured_ghost(B[e])
    IN  Filter(get_enemies, Carrier)

RECURSIVE ChaseScan(_, _, _, _)

\* what follows the while loop for the first enemy of rest, end being the
\* copies the loop leaves
ChaseVerdict(b, B, G, rest, end) ==
    IF is_close_to(BaseOf(Head(rest)), end.enemy.pos)
    THEN ChaseScan(b, B, G, Tail(rest))
    ELSE [ok |-> TRUE, G |-> G,
          sel |-> [NoSel EXCEPT !.enemy = Head(rest), !.pos = end.enemy.pos]]

\* the for loop of ChasingStrategy.is_applicable over the rest of the list
ChaseScan(b, B, G, rest) ==
    IF rest = <<>> THEN [ok |-> FALSE, G |-> G, sel |-> NoSel]
    ELSE ChaseVerdict(b, B, G, rest,
             ChaseLoop([buster |-> B[b], enemy |-> B[Head(rest)]], BaseOf(Head(rest))))

\* ChasingStrategy.is_applicable
ChasingStrategy_is_applicable(b, B, G) == ChaseScan(b, B, G, ghost_carrying_enemies(B))

\* ChasingStrategy.execute
ChasingStrategy_execute(b, B, G, S, sel) ==
    [B |-> B, G |-> G, S |-> S, cmd |-> move_to(sel.pos, "Chase")]

\* BustingStrategy.is_applicable taking the first ghost in range
BustingStrategy_is_applicable_first(b, B, G) ==
    LET Bustable(g) == can_bust(B[b], G[g])
        bustable == Filter(get_ghosts, Bustable)
    IN  IF bustable = <<>> THEN [ok |-> FALSE, G |-> G, sel |-> NoSel]
        ELSE [ok |-> TRUE, G |-> G, sel |-> [NoSel EXCEPT !.ghost = bustable[1]]]

\* BustingStrategy.is_applicable
BustingStrategy_is_applicable(b, B, G) ==
    LET Bustable(g) == can_bust(B[b], G[g])
        bustable == Filter(get_ghosts, Bustable)
        Stamina(g) == G[g].stamina
    IN  IF bustable = <<>> THEN [ok |-> FALSE, G |-> G, sel |-> NoSel]
        ELSE [ok |-> TRUE, G |-> G, sel |-> [NoSel EXCEPT !.ghost = MinBy(bustable, Stamina)]]

\* BustingStrategy.execute
BustingStrategy_execute(b, B, G, S, sel) ==
    LET players == Len(get_enemies) + Len(get_allies)
    IN  [B |-> B, G |-> G, S |-> S,
         cmd |-> IF G[sel.ghost].attacking_busters = players
                 THEN move_to(G[sel.ghost].pos, "Bust")
                 ELSE bust(sel.ghost, "Bust")]

\* BackingStrategy.keep_distance; rnd is the pair drawn by random.randrange
keep_distance(playerPos, enemyPos, min_dist, rnd) ==
    LET dx == playerPos[1] - enemyPos[1]
        dy == playerPos[2] - enemyPos[2]
        d2 == dx * dx + dy * dy
        R == ISqrt(d2)
    IN  IF d2 > 0
        THEN <<enemyPos[1] + IntOfQuotient(min_dist, dx, d2, R),
               enemyPos[2] + IntOfQuotient(min_dist, dy, d2, R)>>
        ELSE rnd

\* will_be_able_to_stun counting only an enemy whose charge is full
will_be_able_to_stun_when_full(enemy, buster) ==
    /\ enemy.is_seen
    /\ enemy.stun_charge >= FullCharge
    /\ enemy.stunned_counter < 1
    /\ distance_from(buster.pos, enemy.pos) <= (StunRange[2] + Speed) * (StunRange[2] + Speed)

\* FleeingStrategy.will_be_able_to_stun, with FleeingStrategy.is_in_range
will_be_able_to_stun(enemy, buster) ==
    IF ~enemy.is_seen \/ enemy.stun_charge < FleeCharge \/ enemy.stunned_counter >= 1
    THEN FALSE
    ELSE LET min_distance == StunRange[2] + Speed
         IN  distance_from(buster.pos, enemy.pos) <= min_distance * min_distance

\* FleeingStrategy.is_applicable
FleeingStrategy_is_applicable(b, B, G) ==
    LET Threat(e) == will_be_able_to_stun(B[e], B[b])
        enemies == Filter(get_enemies, Threat)
    IN  [ok |-> enemies # <<>> /\ B[b].stun_charge < FleeCharge, G |-> G,
         sel |-> [NoSel EXCEPT !.enemies = enemies]]

\* the sum of the c-th coordinates of the busters of sequence es
RECURSIVE SumCoord(_, _, _)
SumCoord(es, B, c) ==
    IF es = <<>> THEN 0 ELSE B[Head(es)].pos[c] + SumCoord(Tail(es), B, c)

\* FleeingStrategy.mean_pos_of_enemies
mean_pos_of_enemies(es, B) ==
    <<SumCoord(es, B, 1) \div Len(es), SumCoord(es, B, 2) \div Len(es)>>

\* FleeingStrategy.execute, with means_of_enemies
FleeingStrategy_execute(b, B, G, S, sel, rnd) ==
    LET min_distance == StunRange[2] + Speed + 1
        pos == keep_distance(B[b].pos, mean_pos_of_enemies(sel.enemies, B), min_distance, rnd)
    IN  [B |-> B, G |-> G, S |-> S, cmd |-> move_to(pos, "Flee")]

\* BackingStrategy.is_applicable
BackingStrategy_is_applicable(b, B, G) ==
    LET TooClose(g) == G[g].is_seen /\ is_too_close_to(B[b], G[g])
        close == Filter(get_ghosts, TooClose)
    IN  IF close = <<>> THEN [ok |-> FALSE, G |-> G, sel |-> NoSel]
        ELSE [ok |-> TRUE, G |-> G, sel |-> [NoSel EXCEPT !.ghost = close[1]]]

\* BackingStrategy.execute, with calculate_closest_in_range_point
BackingStrategy_execute(b, B, G, S, sel, rnd) ==
    LET min_dist == BustRange[1] + 1
    IN  [B |-> B, G |-> G, S |-> S,
         cmd |-> move_to(keep_distance(B[b].pos, G[sel.ghost].pos, min_dist, rnd), "Back")]

\* Ghost.forget
forget(ghost) == [ghost EXCEPT !.is_known = FALSE]

\* InterceptStrategy.get_known_ghosts
get_known_ghosts(G) ==
    LET Known(g) == G[g].is_known
    IN  Filter(get_ghosts, Known)

\* the for loop of InterceptStrategy.is_applicable over the rest of the list
RECURSIVE InterceptScan(_, _, _, _)
InterceptScan(b, B, G, rest) ==
    IF rest = <<>> THEN [ok |-> FALSE, G |-> G, sel |-> NoSel]
    ELSE IF B[b].pos = G[Head(rest)].pos
    THEN InterceptScan(b, B, [G EXCEPT ![Head(rest)] = forget(@)], Tail(rest))
    ELSE [ok |-> TRUE, G |-> G, sel |-> NoSel]

\* InterceptStrategy.is_applicable
InterceptStrategy_is_applicable(b, B, G) == InterceptScan(b, B, G, get_known_ghosts(G))

\* InterceptStrategy.execute
InterceptStrategy_execute(b, B, G, S, sel) ==
    LET known_ghosts == get_known_ghosts(G)
        closest_ghosts == get_closest_of(B[b], known_ghosts, G)
        Stamina(g) == G[g].stamina
        closest_ghost == MinBy(closest_ghosts, Stamina)
    IN  [B |-> B, G |-> G, S |-> S, cmd |-> move_to(G[closest_ghost].pos, "Intercept")]

\* the corners of SeekingStrategy.__init__, before the rotation by the unit's id
Corners == <<<<Width, 0>>, <<0, 0>>, <<0, Height>>, <<Width, Height>>>>

\* Python's s[n:] + s[:n] for n >= 0: s[n:] is empty and s[:n] is s once n >= len(s)
RotateBy(s, n) ==
    IF n >= Len(s) THEN s ELSE SubSeq(s, n + 1, Len(s)) \o SubSeq(s, 1, n)

\* SeekingStrategy.__init__; pos is the position drawn by generate_random_position
NewSeek(id, pos) ==
    [seek_pos |-> pos, counter |-> 0, corners |-> RotateBy(Corners, id)]

\* SeekingStrategy.is_applicable
SeekingStrategy_is_applicable(b, B, G) == [ok |-> TRUE, G |-> G, sel |-> NoSel]

\* SeekingStrategy.execute; pos is the position drawn by generate_random_position
SeekingStrategy_execute(b, B, G, S, sel, pos) ==
    LET S2 == IF B[b].pos = S.seek_pos
              THEN IF S.counter # 0
                   THEN [S EXCEPT !.seek_pos = pos, !.counter = S.counter - 1]
                   ELSE [seek_pos |-> S.corners[1],
                         counter |-> SeekCount,
                         corners |-> SubSeq(S.corners, 2, Len(S.corners))
                                         \o SubSeq(S.corners, 1, 1)]
              ELSE S
    IN  [B |-> B, G |-> G, S |-> S2, cmd |-> move_to(S2.seek_pos, "Seek")]

---------------------------------------------------------------------------
\* The selector: Buster.step.

\* strategy.is_applicable() of the strategy named name
is_applicable(name, b, B, G) ==
    CASE name = "Stun" -> StunStrategy_is_applicable(b, B, G)
      [] name = "Release" -> ReleaseStrategy_is_applicable(b, B, G)
      [] name = "Home" -> HomingStrategy_is_applicable(b, B, G)
      [] name = "Chase" -> ChasingStrategy_is_applicable(b, B, G)
      [] name = "Bust" -> BustingStrategy_is_applicable(b, B, G)
      [] name = "Flee" -> FleeingStrategy_is_applicable(b, B, G)
      [] name = "Back" -> BackingStrategy_is_applicable(b, B, G)
      [] name = "Intercept" -> InterceptStrategy_is_applicable(b, B, G)
      [] name = "Seek" -> SeekingStrategy_is_applicable(b, B, G)

\* strategy.execute() of the strategy named name; rnd.seek and rnd.keep are the
\* values the random module gives generate_random_position and keep_distance
execute(name, b, B, G, S, sel, rnd) ==
    CASE name = "Stun" -> StunStrategy_execute(b, B, G, S, sel)
      [] name = "Release" -> ReleaseStrategy_execute(b, B, G, S, sel)
      [] name = "Home" -> HomingStrategy_execute(b, B, G, S, sel)
      [] name = "Chase" -> ChasingStrategy_execute(b, B, G, S, sel)
      [] name = "Bust" -> BustingStrategy_execute(b, B, G, S, sel)
      [] name = "Flee" -> FleeingStrategy_execute(b, B, G, S, sel, rnd.keep)
      [] name = "Back" -> BackingStrategy_execute(b, B, G, S, sel, rnd.keep)
      [] name = "Intercept" -> InterceptStrategy_execute(b, B, G, S, sel)
      [] name = "Seek" -> SeekingStrategy_execute(b, B, G, S, sel, rnd.seek)

RECURSIVE StepLoop(_, _, _, _)

\* strategy.execute() has given x: its effects and its command are recorded
StepExecuted(b, i, st, rnd, x) ==
    [B |-> x.B, G |-> x.G, S |-> x.S, out |-> Append(st.out, x.cmd),
     evald |-> Append(st.evald, STRATEGIES[i])]

\* the loop without the break: it goes on to the next strategy
AfterExecuteContinue(b, i, st, rnd) == StepLoop(b, i + 1, st, rnd)

\* the break of Buster.step: the loop ends after the first execute
AfterExecute(b, i, st, rnd) == st

\* the body of the for loop of Buster.step for the i-th strategy, whose
\* is_applicable has given a
StepAsked(b, i, st, rnd, a) ==
    IF a.ok
    THEN AfterExecute(b, i,
             StepExecuted(b, i, st, rnd,
                 execute(STRATEGIES[i], b, st.B, a.G, st.S, a.sel, rnd)), rnd)
    ELSE StepLoop(b, i + 1,
             [st EXCEPT !.G = a.G, !.evald = Append(st.evald, STRATEGIES[i])], rnd)

\* the for loop of Buster.step from the i-th strategy on; st holds the busters,
\* the ghosts, the unit's SeekingStrategy fields, the commands written and the
\* strategies asked so far
StepLoop(b, i, st, rnd) ==
    IF i > Len(STRATEGIES) THEN st
    ELSE StepAsked(b, i, st, rnd, is_applicable(STRATEGIES[i], b, st.B, st.G))

\* Buster.step of unit b
step(b, rnd) ==
    StepLoop(b, 1, [B |-> busters, G |-> ghosts, S |-> seek[b],
                    out |-> <<>>, evald |-> <<>>], rnd)

---------------------------------------------------------------------------
\* The round update: ParsedMap.read_round.  A line of the snapshot is
\* [aid, pos, atype, state, value]: atype 0 or 1 is the team of a buster and
\* GhostType a ghost.

StunnedByEnemy == 10
GhostType == 0 - 1

\* Buster.reset
Buster_reset(x) ==
    [x EXCEPT !.stunned_counter = 0, !.stun_charge = x.stun_charge + 1, !.is_seen = FALSE]

\* Ghost.reset
Ghost_reset(g) == [g EXCEPT !.is_seen = FALSE]

\* Buster.capture
capture(id, ghost, B, G) ==
    [B |-> [B EXCEPT ![id].captured_ghost = ghost],
     G |-> [G EXCEPT ![ghost].is_known = FALSE, ![ghost].is_seen = FALSE]]

\* the sequence of ids as a set
Members(s) == {s[i] : i \in 1 .. Len(s)}

\* ParsedMap.update_buster
update_buster(id, state, value, B, G) ==
    LET c == IF state = 1 THEN capture(id, value, B, G)
             ELSE [B |-> [B EXCEPT ![id].captured_ghost = NoGhost], G |-> G]
        CanStunIt(e) == can_stun(c.B[e], c.B[id])
        enemies == Filter(get_enemies, CanStunIt)
        B2 == IF state = 2
              THEN LET B1 == IF id \in Members(get_allies) /\ value = StunnedByEnemy
                                /\ Len(enemies) = 1
                             THEN [c.B EXCEPT ![enemies[1]].stun_charge = 0]
                             ELSE c.B
                   IN  [B1 EXCEPT ![id].stunned_counter = value]
              ELSE c.B
        B3 == IF state = 3 THEN [B2 EXCEPT ![id].busting_ghost = value] ELSE B2
    IN  [B |-> B3, G |-> c.G]

\* ParsedMap.update_ghost
update_ghost(id, state, value, B, G) ==
    [B |-> B, G |-> [G EXCEPT ![id].stamina = state, ![id].attacking_busters = value]]

\* the body of the for loop over the lines of read_round, for one line
read_line(line, B, G) ==
    IF line.atype >= 0
    THEN update_buster(line.aid, line.state, line.value,
             [B EXCEPT ![line.aid].pos = line.pos, ![line.aid].is_seen = TRUE,
                       ![line.aid].is_known = TRUE], G)
    ELSE update_ghost(line.aid, line.state, line.value, B,
             [G EXCEPT ![line.aid].pos = line.pos, ![line.aid].is_seen = TRUE,
                       ![line.aid].is_known = TRUE])

RECURSIVE read_lines(_, _, _)
read_lines(lines, B, G) ==
    IF lines = <<>> THEN [B |-> B, G |-> G]
    ELSE LET r == read_line(Head(lines), B, G)
         IN  read_lines(Tail(lines), r.B, r.G)

\* read_round without its last loop
extrapolate_nobody(B) == B

\* the last loop of read_round: an enemy known and not seen steps towards its base
extrapolate(B) ==
    [id \in DOMAIN B |->
        IF id \in Members(get_enemies) /\ ~B[id].is_seen /\ B[id].is_known
        THEN step_towards(B[id], BaseOf(id))
        ELSE B[id]]

\* ParsedMap.read_round on the snapshot whose lines are the sequence lines
read_round(lines) ==
    LET B0 == [id \in DOMAIN busters |-> Buster_reset(busters[id])]
        G0 == [id \in DOMAIN ghosts |-> Ghost_reset(ghosts[id])]
        r == read_lines(lines, B0, G0)
    IN  [B |-> extrapolate(r.B), G |-> r.G]

---------------------------------------------------------------------------
\* The snapshots the game sends.  A scene gives, for each ally, each enemy and
\* each ghost in list order, the set of entries the snapshot may hold for it;
\* an entry is [here, pos, state, value], with here = FALSE for an actor the
\* snapshot leaves out.  Positions are written for team 0 and mirrored through
\* the centre of the arena when the allies are team 1.  As in the game, every
\* ally is listed, a ghost carried by a listed buster is not listed, and no two
\* listed busters carry the same ghost.

Absent == [here |-> FALSE, pos |-> <<0, 0>>, state |-> 0, value |-> 0]
Idle(p) == [here |-> TRUE, pos |-> p, state |-> 0, value |-> 0 - 1]
Carrying(p, g) == [here |-> TRUE, pos |-> p, state |-> 1, value |-> g]
Stunned(p, n) == [here |-> TRUE, pos |-> p, state |-> 2, value |-> n]
Busting(p, g) == [here |-> TRUE, pos |-> p, state |-> 3, value |-> g]
GhostAt(p, stamina, attackers) ==
    [here |-> TRUE, pos |-> p, state |-> stamina, value |-> attackers]

Place(p) == IF ally_team # 0 THEN <<Width - p[1], Height - p[2]>> ELSE p

\* the ways to pick one entry for each index of the sequence of sets opts
Picks(opts) ==
    {f \in [1 .. Len(opts) -> UNION {opts[i] : i \in 1 .. Len(opts)}] :
        \A i \in 1 .. Len(opts) : f[i] \in opts[i]}

\* the lines of the actors ids with the entries picked for them
LinesOf(ids, atype, picked) ==
    LET all == [i \in 1 .. Len(ids) |->
                   [aid |-> ids[i], pos |-> Place(picked[i].pos), atype |-> atype,
                    state |-> picked[i].state, value |-> picked[i].value,
                    here |-> picked[i].here]]
        Here(l) == l.here
    IN  Filter(all, Here)

AllyType == IF ally_team # 0 THEN 1 ELSE 0

\* how many of the picked busters the snapshot shows carrying ghost g
Carriers(picked, g) ==
    Cardinality({i \in 1 .. Len(picked) :
        picked[i].here /\ picked[i].state = 1 /\ picked[i].value = g})

\* the snapshots of one scene
SceneSnapshots(scene) ==
    {(IF scene.enemies_first
      THEN LinesOf(get_enemies, 1 - AllyType, e) \o LinesOf(get_allies, AllyType, a)
      ELSE LinesOf(get_allies, AllyType, a) \o LinesOf(get_enemies, 1 - AllyType, e))
         \o LinesOf(get_ghosts, GhostType, g) :
        <<a, e, g>> \in
            {t \in Picks(scene.allies) \X Picks(scene.enemies) \X Picks(scene.ghosts) :
                \A i \in 1 .. Len(t[3]) :
                    LET n == Carriers(t[1], i - 1) + Carriers(t[2], i - 1)
                    IN  n <= 1 /\ (n = 1 => ~t[3][i].here)}}

Snapshots(scenes) == UNION {SceneSnapshots(sc) : sc \in scenes}

---------------------------------------------------------------------------
\* The driver: MainLoop.start, after ParsedMap.read_initials.

\* the state read_initials leaves; draws are the positions that
\* generate_random_position may give each unit's SeekingStrategy
InitOf(teams, players, nghosts, draws) ==
    /\ ally_team \in teams
    /\ busters = [id \in 0 .. 2 * players - 1 |-> NewBuster]
    /\ ghosts = [id \in 0 .. nghosts - 1 |-> NewGhost]
    /\ seek \in {[id \in {(IF ally_team # 0 THEN players ELSE 0) + i : i \in 0 .. players - 1}
                     |-> NewSeek(id, d[id]) ] :
                 d \in [0 .. 2 * players - 1 -> draws]}
    /\ turn = 0
    /\ round = 0
    /\ out = <<>>
    /\ evald = <<>>
    /\ actor = NoOne

\* self.map.read_round() of MainLoop.start, on one of the snapshots of scenes
ReadRoundOf(scenes) ==
    /\ turn = 0
    /\ \E lines \in Snapshots(scenes) :
           LET r == read_round(lines)
           IN  busters' = r.B /\ ghosts' = r.G
    /\ turn' = 1
    /\ round' = round + 1
    /\ out' = <<>>
    /\ evald' = <<>>
    /\ actor' = NoOne
    /\ UNCHANGED <<ally_team, seek, probe>>

\* the step of unit b has given r
Stepped(b, r) ==
    /\ busters' = r.B
    /\ ghosts' = r.G
    /\ seek' = [seek EXCEPT ![b] = r.S]
    /\ out' = r.out
    /\ evald' = r.evald
    /\ actor' = b

\* buster.step() of MainLoop.start, for the ally whose turn it is
StepOf(draws) ==
    /\ turn >= 1
    /\ \E rnd \in draws : Stepped(get_allies[turn], step(get_allies[turn], rnd))
    /\ turn' = IF turn = PlayersPerTeam THEN 0 ELSE turn + 1
    /\ UNCHANGED <<ally_team, round, probe>>

---------------------------------------------------------------------------
\* The game specification: two busters a team and two ghosts.  A stun charge
\* fills in FullCharge round updates, so every run opens with QuietRounds
\* rounds in which the snapshot shows only the allies, idle where they start;
\* PlayRounds rounds of play follow.

QuietRounds == 19
PlayRounds == 2

Players == 2
Ghosts == 2

Start == <<2000, 2000>>
Field == <<8000, 4500>>
Wing == <<3000, 7000>>
InBase == <<1599, 0>>
BaseEdge == <<1600, 0>>
Off(p, dx, dy) == <<p[1] + dx, p[2] + dy>>

QuietScene ==
    [allies |-> <<{Idle(Start)}, {Idle(Start)}>>,
     enemies |-> <<{Absent}, {Absent}>>,
     ghosts |-> <<{Absent}, {Absent}>>,
     enemies_first |-> FALSE]

\* the unit in the field among ghosts
GhostScene ==
    [allies |-> <<{Idle(Field)}, {Idle(Wing), Idle(Field)}>>,
     enemies |-> <<{Absent}, {Absent}>>,
     ghosts |-> <<{Absent, GhostAt(Field, 3, 0), GhostAt(Off(Field, 899, 0), 3, 0),
                   GhostAt(Off(Field, 900, 0), 3, 0), GhostAt(Off(Field, 900, 0), 0, 4),
                   GhostAt(Off(Field, 1760, 0), 3, 0)},
                 {Absent, GhostAt(Field, 0, 0), GhostAt(Off(Field, 0, 1759), 3, 0),
                  GhostAt(Off(Field, 0, 900), 1, 0), GhostAt(<<12000, 2000>>, 3, 0)}>>,
     enemies_first |-> FALSE]

\* the unit carrying a ghost home
CarryScene ==
    [allies |-> <<{Carrying(InBase, 0), Carrying(BaseEdge, 0), Carrying(Field, 1)},
                  {Idle(Wing)}>>,
     enemies |-> <<{Absent, Idle(Off(InBase, 1000, 0)), Idle(Off(Field, 300, 400))},
                   {Absent}>>,
     ghosts |-> <<{Absent, GhostAt(Off(Field, 1000, 0), 3, 0)},
                  {Absent, GhostAt(Off(InBase, 1000, 0), 3, 0)}>>,
     enemies_first |-> FALSE]

\* the unit in the field among enemies
EnemyScene ==
    [allies |-> <<{Idle(Field), Stunned(Field, StunnedByEnemy)}, {Idle(Wing)}>>,
     enemies |-> <<{Absent, Idle(Field), Idle(Off(Field, 1759, 0)),
                    Idle(Off(Field, 1760, 0)), Stunned(Off(Field, 500, 0), 5),
                    Carrying(Off(Field, 1000, 1000), 0),
                    Carrying(<<5000, 3000>>, 0)},
                   {Absent, Idle(Off(Field, 0, 2560)), Idle(Off(Field, 0, 2561)),
                    Carrying(Off(Field, 0, 1200), 1)}>>,
     ghosts |-> <<{Absent}, {Absent, GhostAt(Off(Field, 1000, 0), 3, 0)}>>,
     enemies_first |-> TRUE]

PlayScenes == {GhostScene, CarryScene, EnemyScene}

\* the values the random module may give: to generate_random_position and to
\* keep_distance
SeekDraws == {Field}
KeepDraws == {<<0, 0>>, <<RandomWidth - 1, Height - 1>>}
Draws == {[seek |-> s, keep |-> k] : s \in SeekDraws, k \in KeepDraws}

Init == InitOf({0, 1}, Players, Ghosts, SeekDraws) /\ probe = <<>>

ReadRound ==
    /\ round < QuietRounds + PlayRounds
    /\ ReadRoundOf(IF round < QuietRounds THEN {QuietScene} ELSE PlayScenes)

Step == StepOf(Draws)

Next == ReadRound \/ Step

Spec == Init /\ [][Next]_vars

---------------------------------------------------------------------------
\* Buster.next_step_between applied on its own: from start, towards goal, at
\* most MaxProbeSteps times; prev is the position the latest call started from.

MaxProbeSteps == 3

ProbePoints ==
    {<<0, 0>>, <<Width, Height>>, Field, Off(Field, 3, 3), Off(Field, 0, 800),
     Off(Field, 300, 400), Off(Field, 480, 640), Off(Field, 481, 640),
     Off(Field, 0 - 1000, 0), <<1000, 8000>>}

ProbeSpeeds == {0, 1, 5, Speed}

StepInit ==
    /\ InitOf({0}, 1, 1, {Field})
    /\ probe \in {[start |-> p, prev |-> p, pos |-> p, goal |-> g, speed |-> s, steps |-> 0] :
                     p \in ProbePoints, g \in ProbePoints, s \in ProbeSpeeds}

ApplyStep ==
    /\ probe.steps < MaxProbeSteps
    /\ probe' = [probe EXCEPT !.prev = probe.pos,
                              !.pos = next_step_between(probe.pos, probe.goal, probe.speed),
                              !.steps = probe.steps + 1]
    /\ UNCHANGED <<ally_team, busters, ghosts, seek, turn, round, out, evald, actor>>

StepNext == ApplyStep

StepSpec == StepInit /\ [][StepNext]_vars

\* sqrt(a) + s = sqrt(b), for integers a, b >= 0 and s >= 0: for s > 0 both
\* roots must be integers
RootsDifferBy(a, b, s) ==
    IF s = 0 THEN a = b
    ELSE IsSquare(a) /\ IsSquare(b) /\ ISqrt(a) + s = ISqrt(b)

\* C5: a call of next_step_between that starts within speed of the goal
\* (squared distance at most speed*speed) returns the goal itself, and a call
\* that starts at the goal returns the goal.
C5_ArrivesExactly ==
    probe.steps >= 1 =>
        /\ distance_from(probe.prev, probe.goal) <= probe.speed * probe.speed
               => probe.pos = probe.goal
        /\ probe.prev = probe.goal => probe.pos = probe.goal

\* a second call, made from the goal that the first call reached from another
\* point within speed of it
C5_Witness ==
    /\ probe.steps = 2
    /\ probe.start # probe.goal
    /\ distance_from(probe.start, probe.goal) <= probe.speed * probe.speed
    /\ probe.prev = probe.goal
    /\ probe.pos = probe.goal

\* C6 as stated: a call that starts farther than speed from the goal returns a
\* point exactly speed from the start and exactly speed nearer to the goal.
C6_ExactStep ==
    (probe.steps >= 1
        /\ distance_from(probe.prev, probe.goal) > probe.speed * probe.speed) =>
        /\ distance_from(probe.prev, probe.pos) = probe.speed * probe.speed
        /\ RootsDifferBy(distance_from(probe.pos, probe.goal),
                         distance_from(probe.prev, probe.goal), probe.speed)

\* C6 as amended: a call that starts farther than speed from the goal returns
\* the point speed along the line with its coordinates truncated; the result is
\* less than 2 from that point, so its distance from the start differs from
\* speed by less than 2 and its distance to the goal differs from the start's
\* less speed by less than 2 (at most 2 between the whole parts); both are
\* exact when the line is parallel to an axis.
C6_StepWithinTruncation ==
    (probe.steps >= 1
        /\ distance_from(probe.prev, probe.goal) > probe.speed * probe.speed) =>
        LET moved == distance_from(probe.prev, probe.pos)
            before == distance_from(probe.prev, probe.goal)
            after == distance_from(probe.pos, probe.goal)
        IN  /\ moved < (probe.speed + 2) * (probe.speed + 2)
            /\ probe.speed >= 2 => moved > (probe.speed - 2) * (probe.speed - 2)
            /\ ISqrt(after) <= ISqrt(before) - probe.speed + 2
            /\ ISqrt(after) >= ISqrt(before) - probe.speed - 2
            /\ (probe.prev[1] = probe.goal[1] \/ probe.prev[2] = probe.goal[2]) =>
                   /\ moved = probe.speed * probe.speed
                   /\ RootsDifferBy(after, before, probe.speed)

\* a step along a line parallel to no axis whose truncation shortens it
C6_Witness ==
    /\ probe.steps >= 1
    /\ probe.speed = Speed
    /\ distance_from(probe.prev, probe.goal) > probe.speed * probe.speed
    /\ probe.prev[1] # probe.goal[1]
    /\ probe.prev[2] # probe.goal[2]
    /\ distance_from(probe.prev, probe.pos) # probe.speed * probe.speed

---------------------------------------------------------------------------
\* The while loop of ChasingStrategy.is_applicable run pass by pass on the two
\* copies, for one enemy that carries a ghost; first holds the copies as made.

\* passes that bring an enemy from anywhere in the arena into its base's range:
\* every pass brings it nearer by more than Speed - 2
ChaseBound ==
    (ISqrt(Width * Width + Height * Height) - BaseFar) \div (Speed - 2) + 1

ChasePoints ==
    {<<0, 0>>, <<Width, Height>>, <<Width, 0>>, Field, <<5000, 3000>>, <<9000, 5500>>,
     <<1131, 1131>>}

ChaseInit ==
    /\ InitOf({0}, 1, 1, {Field})
    /\ probe \in
           {[buster |-> b, enemy |-> e, first |-> [buster |-> b, enemy |-> e],
             base |-> base, iters |-> 0] :
               b \in {[NewBuster EXCEPT !.pos = p, !.stun_charge = c] :
                         p \in ChasePoints, c \in {0, FullCharge}},
               e \in {[NewBuster EXCEPT !.pos = p, !.is_seen = seen, !.is_known = TRUE,
                                        !.captured_ghost = 0, !.stunned_counter = n] :
                         p \in ChasePoints, seen \in BOOLEAN, n \in {0, 5}},
               base \in {<<0, 0>>, <<Width, Height>>}}

ChasePass ==
    /\ probe.iters <= ChaseBound
    /\ enemy_keeps_ghost(probe.enemy, probe.buster, probe.base)
    /\ LET next == ChaseIteration([buster |-> probe.buster, enemy |-> probe.enemy],
                                  probe.base)
       IN  probe' = [probe EXCEPT !.buster = next.buster, !.enemy = next.enemy,
                                  !.iters = probe.iters + 1]
    /\ UNCHANGED <<ally_team, busters, ghosts, seek, turn, round, out, evald, actor>>

ChaseNext == ChasePass

ChaseSpec == ChaseInit /\ [][ChaseNext]_vars

\* C7: the pursuit loop makes at most ChaseBound passes, whatever the stun
\* charge of the unit and whether or not the enemy is seen or stunned; when it
\* stops the simulated enemy is within stun reach of the simulated unit or
\* inside its base's range, and the copies are those the loop of
\* is_applicable ends with.
C7_ChaseTerminates ==
    /\ probe.iters <= ChaseBound
    /\ ~enemy_keeps_ghost(probe.enemy, probe.buster, probe.base) =>
           /\ can_stun(probe.buster, probe.enemy)
                \/ is_close_to(probe.base, probe.enemy.pos)
           /\ ChaseLoop(probe.first, probe.base)
                = [buster |-> probe.buster, enemy |-> probe.enemy]

\* the longest run: a unit whose charge is below FullCharge, after an enemy that
\* crosses the whole arena
C7_Witness ==
    /\ probe.iters = ChaseBound
    /\ probe.buster.stun_charge < FullCharge
    /\ ~enemy_keeps_ghost(probe.enemy, probe.buster, probe.base)
    /\ is_close_to(probe.base, probe.enemy.pos)

---------------------------------------------------------------------------
\* SeekingStrategy on its own: one unit whose Seek executes turn after turn.
\* Between two turns the unit either reaches the target it was sent to or stops
\* short of it.  probe.last records what the latest execute did: where the unit
\* stood, the target before and after, the branch taken, how many corner targets
\* there have been, how many random waypoints since the latest corner target
\* and how many there were between the latest two corner targets.

MaxUnitId == 5
MaxSeekTurns == 32

SeekTargets == {Field, <<0, 0>>}

Short == <<12345, 678>>

NoSeekTurn ==
    [at |-> Start, before |-> Start, after |-> Start, branch |-> "none",
     corner_no |-> 0, waypoints |-> 0, between |-> 0]

SeekInit ==
    /\ InitOf({0}, 1, 1, {Field})
    /\ probe \in
           {[id |-> id, pos |-> pos, strat |-> NewSeek(id, draw), turns |-> 0,
             last |-> NoSeekTurn] :
               id \in 0..MaxUnitId, pos \in {Start, Field}, draw \in SeekTargets}

SeekTurn ==
    /\ probe.turns < MaxSeekTurns
    /\ \E draw \in SeekTargets, arrives \in BOOLEAN :
          LET B      == [i \in {probe.id} |-> [NewBuster EXCEPT !.pos = probe.pos]]
              res    == SeekingStrategy_execute(probe.id, B, ghosts, probe.strat,
                                                NoSel, draw)
              branch == IF probe.pos # probe.strat.seek_pos THEN "none"
                        ELSE IF probe.strat.counter # 0 THEN "random" ELSE "corner"
          IN  probe' =
                [probe EXCEPT
                   !.strat = res.S,
                   !.turns = probe.turns + 1,
                   !.pos   = IF arrives THEN res.cmd.arg ELSE Short,
                   !.last  = [at        |-> probe.pos,
                              before    |-> probe.strat.seek_pos,
                              after     |-> res.cmd.arg,
                              branch    |-> branch,
                              corner_no |-> IF branch = "corner"
                                            THEN probe.last.corner_no + 1
                                            ELSE probe.last.corner_no,
                              between   |-> IF branch = "corner"
                                            THEN probe.last.waypoints
                                            ELSE probe.last.between,
                              waypoints |-> CASE branch = "corner" -> 0
                                              [] branch = "random" ->
                                                     probe.last.waypoints + 1
                                              [] OTHER -> probe.last.waypoints]]
    /\ UNCHANGED <<ally_team, busters, ghosts, seek, turn, round, out, evald, actor>>

SeekNext == SeekTurn

SeekSpec == SeekInit /\ [][SeekNext]_vars

\* the corner the k-th corner target is in a cyclic rotation of Corners that
\* starts at the corner indexed by the unit's id
RotationCorner(id, k) == Corners[((id + k - 1) % Len(Corners)) + 1]

\* C8: the patrol target changes only on a turn where the unit stands exactly on
\* it; the k-th corner target is the k-th corner of the cyclic rotation that
\* starts at the corner indexed by the unit's id; and exactly SeekCount random
\* waypoints are targeted between two successive corner targets.
C8_PatrolRotation ==
    /\ probe.last.after # probe.last.before => probe.last.at = probe.last.before
    /\ probe.last.branch = "corner" =>
           probe.last.after = RotationCorner(probe.id, probe.last.corner_no)
    /\ probe.last.branch = "corner" /\ probe.last.corner_no >= 2 =>
           probe.last.between = SeekCount

---------------------------------------------------------------------------
\* Properties of the game specification.  In a Step transition the unprimed
\* variables are the world the unit decides in and the primed ones what its
\* step leaves: out' the commands written and evald' the strategies asked.

\* the unit whose step is next
Stepper == get_allies[turn]

\* the order of the strategies as the description of the selector gives it
ClaimedOrder ==
    <<"Stun", "Release", "Home", "Chase", "Bust", "Flee", "Back", "Intercept", "Seek">>

\* strategy name is applicable for the unit whose step is next
Applies(name) == is_applicable(name, Stepper, busters, ghosts).ok

\* the commands strategy name may write for the unit whose step is next
CommandsOf(name) ==
    LET a == is_applicable(name, Stepper, busters, ghosts)
    IN  {execute(name, Stepper, busters, a.G, seek[Stepper], a.sel, rnd).cmd :
            rnd \in Draws}

\* C1: every step of an allied unit writes exactly one command, the command of
\* the first strategy of the order Stun, Release, Home, Chase, Bust, Flee,
\* Back-off, Intercept, Seek that is applicable; the strategies asked are those
\* up to it and no other.
C1_FirstApplicable ==
    [][turn >= 1 =>
          /\ actor' = Stepper
          /\ Len(out') = 1
          /\ \E i \in 1 .. Len(ClaimedOrder) :
                /\ Applies(ClaimedOrder[i])
                /\ \A j \in 1 .. i - 1 : ~Applies(ClaimedOrder[j])
                /\ out'[1].by = ClaimedOrder[i]
                /\ out'[1] \in CommandsOf(ClaimedOrder[i])
                /\ evald' = SubSeq(ClaimedOrder, 1, i)]_vars

\* a step in which five strategies were not applicable and Flee was
C1_Witness ==
    /\ actor # NoOne
    /\ Len(out) = 1
    /\ out[1].by = "Flee"
    /\ evald = SubSeq(ClaimedOrder, 1, 6)

\* C2: a unit that writes a stun command has a stun charge of at least
\* FullCharge, its target has stunned counter 0, and the squared distance d2 to
\* the target satisfies 0 <= d2 < StunFar * StunFar.
C2_StunOnlyWhenAble ==
    [][(turn >= 1 /\ \E i \in 1 .. Len(out') : out'[i].kind = "STUN") =>
          \A i \in 1 .. Len(out') :
              out'[i].kind = "STUN" =>
                  LET d2 == distance_from(busters[Stepper].pos, busters[out'[i].arg[1]].pos)
                  IN  /\ busters[Stepper].stun_charge >= FullCharge
                      /\ busters[out'[i].arg[1]].stunned_counter = 0
                      /\ StunRange[1] * StunRange[1] <= d2
                      /\ d2 < StunFar * StunFar]_vars

\* a stun of an enemy one short of the far radius
C2_Witness ==
    /\ actor # NoOne
    /\ Len(out) = 1
    /\ out[1].kind = "STUN"
    /\ distance_from(busters[actor].pos, busters[out[1].arg[1]].pos)
           = (StunFar - 1) * (StunFar - 1)

\* C3: a unit writes a release command only when it carries a ghost and the
\* squared distance to its base is less than BaseFar * BaseFar; and a unit that
\* carries a ghost that near to its base writes a release command unless Stun
\* is applicable.
C3_ReleaseOnlyInsideBase ==
    [][turn >= 1 =>
          LET carries == busters[Stepper].captured_ghost # NoGhost
              inside == distance_from(BaseOf(Stepper), busters[Stepper].pos)
                            < BaseFar * BaseFar
          IN  /\ \A i \in 1 .. Len(out') :
                    out'[i].kind = "RELEASE" => carries /\ inside
              /\ (carries /\ inside /\ ~Applies("Stun")) =>
                    (Len(out') >= 1 /\ out'[1].kind = "RELEASE")]_vars

\* a release one short of the far radius of the base
C3_Witness ==
    /\ actor # NoOne
    /\ Len(out) = 1
    /\ out[1].kind = "RELEASE"
    /\ distance_from(BaseOf(actor), busters[actor].pos) = (BaseFar - 1) * (BaseFar - 1)

\* C4 as stated: after the step of a unit that releases, the unit's
\* captured_ghost is cleared and the released ghost is neither known nor seen.
C4_ReleaseClears ==
    [][(turn >= 1 /\ Len(out') = 1 /\ out'[1].kind = "RELEASE") =>
          LET ghost == busters[Stepper].captured_ghost
          IN  /\ busters'[Stepper].captured_ghost = NoGhost
              /\ ~ghosts'[ghost].is_known
              /\ ~ghosts'[ghost].is_seen]_vars

\* C4 as amended: after the step of a unit that releases, the released ghost is
\* neither known nor seen, and the unit's captured_ghost still names it.
C4_ReleaseForgetsGhost ==
    [][(turn >= 1 /\ Len(out') = 1 /\ out'[1].kind = "RELEASE") =>
          LET ghost == busters[Stepper].captured_ghost
          IN  /\ ghost # NoGhost
              /\ busters'[Stepper].captured_ghost = ghost
              /\ ~ghosts'[ghost].is_known
              /\ ~ghosts'[ghost].is_seen]_vars

\* a unit that has released and still holds the reference
C4_Witness ==
    /\ actor # NoOne
    /\ Len(out) = 1
    /\ out[1].kind = "RELEASE"
    /\ busters[actor].captured_ghost # NoGhost
    /\ ~ghosts[busters[actor].captured_ghost].is_known

\* the known ghosts that are not at the unit's position
Pursuable ==
    LET Elsewhere(g) == ghosts[g].is_known /\ ghosts[g].pos # busters[Stepper].pos
    IN  Filter(get_ghosts, Elsewhere)

\* C9: a step in which Intercept is asked forgets every known ghost at the
\* unit's position, wherever it stands in the list of ghosts; the move of
\* Intercept is to the nearest ghost still known, the one of least stamina
\* among the nearest, and never to the unit's own position.
C9_InterceptForgetsCoincident ==
    [][(turn >= 1 /\ \E i \in 1 .. Len(evald') : evald'[i] = "Intercept") =>
          /\ \A g \in DOMAIN ghosts :
                (ghosts[g].is_known /\ ghosts[g].pos = busters[Stepper].pos)
                    => ~ghosts'[g].is_known
          /\ \A i \in 1 .. Len(out') :
                out'[i].by = "Intercept" =>
                    LET nearest == get_closest_of(busters[Stepper], Pursuable, ghosts)
                        Stamina(g) == ghosts[g].stamina
                    IN  /\ out'[i].arg # busters[Stepper].pos
                        /\ out'[i].arg = ghosts[MinBy(nearest, Stamina)].pos]_vars

\* C10: every buster and every ghost that is seen is known.
C10_SeenImpliesKnown ==
    /\ \A id \in DOMAIN busters : busters[id].is_seen => busters[id].is_known
    /\ \A id \in DOMAIN ghosts : ghosts[id].is_seen => ghosts[id].is_known

\* a step in which Intercept has forgotten the ghost at the unit's position
C10_Witness ==
    /\ actor # NoOne
    /\ \E i \in 1 .. Len(evald) : evald[i] = "Intercept"
    /\ \E g \in DOMAIN ghosts :
          /\ ghosts[g].pos = busters[actor].pos
          /\ ~ghosts[g].is_known
          /\ \A id \in DOMAIN busters : busters[id].captured_ghost # g

\* the point lies in the arena
InArena(p) == 0 <= p[1] /\ p[1] <= Width /\ 0 <= p[2] /\ p[2] <= Height

\* C11: the target of every move command lies in the arena, and the move of
\* Flee and of Back-off is one fixed point whatever the random module gives,
\* also when the unit stands on the point it moves away from.
C11_MovesInArena ==
    [][turn >= 1 =>
          \A i \in 1 .. Len(out') :
              out'[i].kind = "MOVE" =>
                  /\ InArena(out'[i].arg)
                  /\ out'[i].by \in {"Flee", "Back"} =>
                        \A rnd \in Draws : step(Stepper, rnd).out = out']_vars

---------------------------------------------------------------------------
\* ChasingStrategy.is_applicable on objects.  H is the heap of Buster objects:
\* the references 0 .. 2 * PlayersPerTeam - 1 are the live busters, by id, and
\* copy_of makes an object under the next free reference.  step_towards
\* assigns the pos of the object it is called on.  The ghosts and the bases
\* are shared by the copies and never assigned.

\* copy_of giving the object itself
copy_of_alias(H, ref) == [H |-> H, ref |-> ref]

\* copy_of: Buster(**obj.__dict__), a new object with the fields of obj
copy_of(H, ref) ==
    [H |-> [r \in DOMAIN H \cup {Cardinality(DOMAIN H)} |->
               IF r \in DOMAIN H THEN H[r] ELSE H[ref]],
     ref |-> Cardinality(DOMAIN H)]

\* H[ref].step_towards(goal)
HeapStepTowards(H, ref, goal) == [H EXCEPT ![ref] = step_towards(H[ref], goal)]

\* clone_buster.step_towards(clone_enemy.pos)
HeapChaseFollow(H, cb, ce) == HeapStepTowards(H, cb, H[ce].pos)

\* the while loop of is_applicable on the copies cb and ce
RECURSIVE HeapChaseLoop(_, _, _, _)
HeapChaseLoop(H, cb, ce, basePos) ==
    IF enemy_keeps_ghost(H[ce], H[cb], basePos)
    THEN HeapChaseLoop(HeapChaseFollow(HeapStepTowards(H, ce, basePos), cb, ce),
                       cb, ce, basePos)
    ELSE H

RECURSIVE HeapChaseScan(_, _, _, _)

\* what follows the while loop for the first enemy of rest
HeapChaseVerdict(b, G, rest, ce, H) ==
    IF is_close_to(BaseOf(Head(rest)), H[ce].pos)
    THEN HeapChaseScan(b, H, G, Tail(rest))
    ELSE [ok |-> TRUE, H |-> H, G |-> G,
          sel |-> [NoSel EXCEPT !.enemy = Head(rest), !.pos = H[ce].pos]]

\* clone_enemy = copy_of(enemy), c2, and the while loop
HeapChaseEnemy(b, G, rest, cb, c2) ==
    HeapChaseVerdict(b, G, rest, c2.ref,
        HeapChaseLoop(c2.H, cb, c2.ref, BaseOf(Head(rest))))

\* clone_buster = copy_of(self.buster), c1
HeapChaseBuster(b, G, rest, c1) ==
    HeapChaseEnemy(b, G, rest, c1.ref, copy_of(c1.H, Head(rest)))

\* the for loop of is_applicable over the rest of the list
HeapChaseScan(b, H, G, rest) ==
    IF rest = <<>> THEN [ok |-> FALSE, H |-> H, G |-> G, sel |-> NoSel]
    ELSE HeapChaseBuster(b, G, rest, copy_of(H, b))

\* ChasingStrategy.is_applicable on the live busters B
HeapChasingStrategy_is_applicable(b, B, G) ==
    HeapChaseScan(b, B, G, ghost_carrying_enemies(B))

\* the live busters of heap H
Live(H) == [id \in DOMAIN busters |-> H[id]]

---------------------------------------------------------------------------
\* The encounter specification: the game taken up in the round before the
\* teams meet.  The allies stand idle where they start, the enemies have not
\* been seen, and the stun charges are the ones a unit has shortly before its
\* charge is full.  WorldRounds round updates follow, each on a snapshot of
\* the encounter scene, and each records the snapshot it read and the state it
\* found.

WorldRounds == 2

OwnCharges == {FleeCharge - 2, FleeCharge - 1, FleeCharge}
EnemyCharges == {FleeCharge - 2, FleeCharge - 1, FleeCharge}

NearEnemyBase == <<14000, 8000>>

\* the unit in the field, the enemies around it or on their way home
EncounterScene ==
    [allies |-> <<{Idle(Field)}, {Idle(Wing)}>>,
     enemies |-> <<{Absent, Idle(Off(Field, 0, 1759)), Idle(Off(Field, 2560, 0)),
                    Stunned(Off(Field, 500, 0), 5),
                    Carrying(Off(Field, 1000, 1000), 0),
                    Carrying(<<5000, 3000>>, 0), Carrying(NearEnemyBase, 0)},
                   {Absent, Idle(Off(Field, 0, 2560)), Idle(Off(Field, 0, 2561)),
                    Idle(Off(Field, 1000, 0)), Carrying(Off(Field, 0, 1200), 1),
                    Carrying(<<6000, 2000>>, 1)}>>,
     ghosts |-> <<{Absent}, {Absent}>>,
     enemies_first |-> FALSE]

\* the busters before the encounter
Waiting(id, own, theirs) ==
    IF (id >= Players) = (ally_team # 0)
    THEN [NewBuster EXCEPT !.pos = Place(Start), !.is_known = TRUE, !.stun_charge = own]
    ELSE [NewBuster EXCEPT !.stun_charge = theirs]

WorldInit ==
    /\ ally_team \in {0, 1}
    /\ busters \in {[id \in 0 .. 2 * Players - 1 |-> Waiting(id, own, theirs)] :
                       own \in OwnCharges, theirs \in EnemyCharges}
    /\ ghosts = [id \in 0 .. Ghosts - 1 |-> NewGhost]
    /\ seek = [id \in {(IF ally_team # 0 THEN Players ELSE 0) + i : i \in 0 .. Players - 1}
                  |-> NewSeek(id, Field)]
    /\ turn = 0
    /\ round = 0
    /\ out = <<>>
    /\ evald = <<>>
    /\ actor = NoOne
    /\ probe = [lines |-> <<>>, B |-> busters, G |-> ghosts]

\* read_round has read lines and given r
Updated(lines, r) ==
    /\ busters' = r.B
    /\ ghosts' = r.G
    /\ probe' = [lines |-> lines, B |-> busters, G |-> ghosts]

\* self.map.read_round() of MainLoop.start on a snapshot of the encounter
WorldRound ==
    /\ turn = 0
    /\ round < WorldRounds
    /\ \E lines \in Snapshots({EncounterScene}) : Updated(lines, read_round(lines))
    /\ turn' = 1
    /\ round' = round + 1
    /\ out' = <<>>
    /\ evald' = <<>>
    /\ actor' = NoOne
    /\ UNCHANGED <<ally_team, seek>>

WorldStep == StepOf(Draws)

WorldNext == WorldRound \/ WorldStep

WorldSpec == WorldInit /\ [][WorldNext]_vars

---------------------------------------------------------------------------
\* The chase check specification: after a round update of the encounter, each
\* ally in turn evaluates ChasingStrategy.is_applicable on the objects, and
\* the live objects are what the evaluation leaves.

\* the evaluation by unit b has given r
Checked(b, r) ==
    /\ busters' = Live(r.H)
    /\ ghosts' = r.G
    /\ probe' = [lines |-> probe.lines, B |-> busters, G |-> ghosts,
                 unit |-> b, ok |-> r.ok, sel |-> r.sel]

ChaseCheck ==
    /\ turn >= 1
    /\ Checked(get_allies[turn],
               HeapChasingStrategy_is_applicable(get_allies[turn], busters, ghosts))
    /\ turn' = IF turn = PlayersPerTeam THEN 0 ELSE turn + 1
    /\ actor' = get_allies[turn]
    /\ UNCHANGED <<ally_team, seek, round, out, evald>>

CopyNext == WorldRound \/ ChaseCheck

CopySpec == WorldInit /\ [][CopyNext]_vars

\* C12: evaluating ChasingStrategy.is_applicable leaves every live buster
\* and every ghost as it found them (position, stun charge, stunned counter,
\* seen and known flags, carried ghost), and gives the verdict, the enemy and
\* the target of the simulation on copies.  The base positions are fixed.
C12_ChaseCheckIsPure ==
    "ok" \in DOMAIN probe =>
        /\ busters = probe.B
        /\ ghosts = probe.G
        /\ ChasingStrategy_is_applicable(probe.unit, busters, ghosts)
               = [ok |-> probe.ok, G |-> ghosts, sel |-> probe.sel]

\* a check that found an enemy to chase after simulating at least one pass
C12_Witness ==
    /\ "ok" \in DOMAIN probe
    /\ probe.ok
    /\ probe.sel.pos # busters[probe.sel.enemy].pos

\* C13: after a round update every buster and every ghost the snapshot lists
\* is where the snapshot says; an enemy the snapshot leaves out is one
\* step_towards its own base from where it was if it was known, and where it
\* was otherwise; an ally or a ghost the snapshot leaves out is where it was.
C13_Extrapolation ==
    round >= 1 =>
        LET Listed(t, id) ==
                \E i \in 1 .. Len(probe.lines) :
                    (probe.lines[i].atype >= 0) = t /\ probe.lines[i].aid = id
            LineOf(t, id) ==
                CHOOSE l \in Members(probe.lines) : (l.atype >= 0) = t /\ l.aid = id
        IN  /\ \A id \in DOMAIN busters :
                   busters[id].pos =
                       IF Listed(TRUE, id) THEN LineOf(TRUE, id).pos
                       ELSE IF id \in Members(get_enemies) /\ probe.B[id].is_known
                            THEN next_step_between(probe.B[id].pos, BaseOf(id), Speed)
                            ELSE probe.B[id].pos
            /\ \A id \in DOMAIN ghosts :
                   ghosts[id].pos =
                       IF Listed(FALSE, id) THEN LineOf(FALSE, id).pos
                       ELSE probe.G[id].pos

\* a known enemy the snapshot leaves out has moved
C13_Witness ==
    /\ round >= 2
    /\ \E id \in Members(get_enemies) :
           /\ \A i \in 1 .. Len(probe.lines) :
                  probe.lines[i].atype >= 0 => probe.lines[i].aid # id
           /\ probe.B[id].is_known
           /\ busters[id].pos # probe.B[id].pos

\* the busters as the unit b would find them with a full stun charge and every
\* enemy in sight: what is left to decide a chase is positions, speeds, ranges
InPlainSight(b) ==
    [id \in DOMAIN busters |->
        IF id = b THEN [busters[id] EXCEPT !.stun_charge = FullCharge]
        ELSE IF id \in Members(get_enemies) THEN [busters[id] EXCEPT !.is_seen = TRUE]
        ELSE busters[id]]

\* C14: a unit asked for Chase chases exactly when the alternating simulation
\* brings it within stun range of a known ghost-carrying enemy before that
\* enemy is inside the close radius of its base, whatever the stun charge of
\* the unit and whether or not the enemy is seen this turn; it moves to the
\* simulated position of the first such enemy.
C14_ChaseByPositions ==
    [][(turn >= 1 /\ "Chase" \in Members(evald')) =>
          /\ (out'[1].by = "Chase")
                = ChasingStrategy_is_applicable(Stepper, InPlainSight(Stepper), ghosts).ok
          /\ out'[1].by = "Chase" =>
                out'[1].arg
                    = ChasingStrategy_is_applicable(Stepper, InPlainSight(Stepper), ghosts).sel.pos]_vars

\* enemy e is seen, not stunned, has a stun charge of at least charge and is
\* no farther than StunFar + Speed from the unit whose step is next
Threatens(e, charge) ==
    /\ busters[e].is_seen
    /\ busters[e].stun_charge >= charge
    /\ busters[e].stunned_counter = 0
    /\ distance_from(busters[Stepper].pos, busters[e].pos)
           <= (StunFar + Speed) * (StunFar + Speed)

InAnnulus(g) ==
    /\ ghosts[g].is_seen
    /\ BustNear * BustNear <= distance_from(busters[Stepper].pos, ghosts[g].pos)
    /\ distance_from(busters[Stepper].pos, ghosts[g].pos) < BustFar * BustFar

\* ghost g has the least stamina of the ghosts in the annulus
LeastStamina(g) ==
    /\ InAnnulus(g)
    /\ \A h \in DOMAIN ghosts : InAnnulus(h) => ghosts[g].stamina <= ghosts[h].stamina

\* C16: the command of Bust is about a seen ghost in the bust annulus of the
\* unit, BustNear^2 <= d2 < BustFar^2, of least stamina among such ghosts: a
\* bust of that ghost, or, if as many busters attack it as the two teams have
\* together, a move to its position.
C16_BustLeastStamina ==
    [][(turn >= 1 /\ out'[1].by = "Bust") =>
          \E g \in DOMAIN ghosts :
              /\ LeastStamina(g)
              /\ out'[1] = IF ghosts[g].attacking_busters = 2 * PlayersPerTeam
                           THEN [kind |-> "MOVE", arg |-> ghosts[g].pos, by |-> "Bust"]
                           ELSE [kind |-> "BUST", arg |-> <<g>>, by |-> "Bust"]]_vars

\* a bust of the second ghost of two in the annulus, the one of less stamina
C16_Witness ==
    /\ actor # NoOne
    /\ Len(out) = 1
    /\ out[1].kind = "BUST"
    /\ out[1].arg = <<1>>
    /\ can_bust(busters[actor], ghosts[0])
    /\ can_bust(busters[actor], ghosts[1])
    /\ ghosts[1].stamina < ghosts[0].stamina

\* a move to a ghost that every buster of the game attacks
C16_MoveInstead ==
    /\ actor # NoOne
    /\ Len(out) = 1
    /\ out[1].kind = "MOVE"
    /\ out[1].by = "Bust"

\* the unit whose step is next can stun the i-th enemy of the enumeration
StunnableAt(i) == can_stun(busters[Stepper], busters[get_enemies[i]])

\* and that enemy carries a ghost
CarrierAt(i) == StunnableAt(i) /\ has_captured_ghost(busters[get_enemies[i]])

\* C17: the target of a stun command is the first enemy, in the order of
\* get_enemies, among the stunnable enemies that carry a ghost; if no
\* stunnable enemy carries a ghost it is the first stunnable enemy.
C17_StunTarget ==
    [][(turn >= 1 /\ out'[1].kind = "STUN") =>
          \E i \in 1 .. Len(get_enemies) :
              /\ out'[1].arg = <<get_enemies[i]>>
              /\ StunnableAt(i)
              /\ IF \E k \in 1 .. Len(get_enemies) : CarrierAt(k)
                 THEN CarrierAt(i) /\ \A j \in 1 .. i - 1 : ~CarrierAt(j)
                 ELSE \A j \in 1 .. i - 1 : ~StunnableAt(j)]_vars

\* a stun of the second enemy, which carries a ghost, the first enemy being in
\* reach without one
C17_Witness ==
    /\ actor # NoOne
    /\ Len(out) = 1
    /\ out[1].kind = "STUN"
    /\ out[1].arg = <<get_enemies[2]>>
    /\ has_captured_ghost(busters[get_enemies[2]])
    /\ busters[get_enemies[1]].is_seen
    /\ ~is_stunned(busters[get_enemies[1]])
    /\ ~has_captured_ghost(busters[get_enemies[1]])
    /\ is_in_range(busters[actor].pos, busters[get_enemies[1]].pos, StunRange)

\* a stun of the first of two enemies in reach, neither with a ghost
C17_FirstOfTwo ==
    /\ actor # NoOne
    /\ Len(out) = 1
    /\ out[1].kind = "STUN"
    /\ out[1].arg = <<get_enemies[1]>>
    /\ \A i \in 1 .. 2 :
           /\ busters[get_enemies[i]].is_seen
           /\ ~is_stunned(busters[get_enemies[i]])
           /\ ~has_captured_ghost(busters[get_enemies[i]])
           /\ is_in_range(busters[actor].pos, busters[get_enemies[i]].pos, StunRange)

\* C18: the stun charge of every buster, ally or enemy, is in 0 .. FullCharge
\* in every state.
C18_ChargeInRange ==
    \A id \in DOMAIN busters :
        busters[id].stun_charge \in 0 .. FullCharge

---------------------------------------------------------------------------
\* The recharge specification: the game from its first round, the unit in the
\* field and one enemy in its reach or out of sight in every round, for
\* RechargeRounds rounds, long enough for a unit to stun twice.  The round of
\* the last stun of each unit and the rounds between its last two stuns are
\* recorded.

RechargeRounds == 41

RechargeScene ==
    [allies |-> <<{Idle(Field)}, {Idle(Wing)}>>,
     enemies |-> <<{Absent, Idle(Off(Field, 1000, 0)),
                    Stunned(Off(Field, 1000, 0), StunnedByEnemy)},
                   {Absent}>>,
     ghosts |-> <<{Absent}, {Absent}>>,
     enemies_first |-> FALSE]

RechargeInit ==
    /\ InitOf({0, 1}, Players, Ghosts, SeekDraws)
    /\ probe = [last |-> [id \in 0 .. 2 * Players - 1 |-> 0],
                gap |-> [id \in 0 .. 2 * Players - 1 |-> 0]]

RechargeRound ==
    /\ round < RechargeRounds
    /\ ReadRoundOf({RechargeScene})

\* the step of unit b has given r: a stun is recorded
Noted(b, r) ==
    /\ Stepped(b, r)
    /\ probe' = IF r.out[1].kind = "STUN"
                THEN [last |-> [probe.last EXCEPT ![b] = round],
                      gap |-> [probe.gap EXCEPT
                                  ![b] = IF probe.last[b] > 0 THEN round - probe.last[b]
                                         ELSE 0]]
                ELSE probe

RechargeStep ==
    /\ turn >= 1
    /\ \E rnd \in Draws : Noted(get_allies[turn], step(get_allies[turn], rnd))
    /\ turn' = IF turn = PlayersPerTeam THEN 0 ELSE turn + 1
    /\ UNCHANGED <<ally_team, round>>

RechargeNext == RechargeRound \/ RechargeStep

RechargeSpec == RechargeInit /\ [][RechargeNext]_vars

\* C19: a round update adds exactly 1 to the stun charge of every ally; a
\* unit that writes a stun command has stun charge 0 after it, and if it has
\* stunned before, at least FullCharge round updates lie between the two
\* commands, so never fewer than two.
C19_StunRecharge ==
    [][/\ turn = 0 =>
              \A a \in Members(get_allies) :
                  busters'[a].stun_charge = busters[a].stun_charge + 1
       /\ (turn >= 1 /\ out'[1].kind = "STUN") =>
              /\ busters'[Stepper].stun_charge = 0
              /\ probe.last[Stepper] > 0 =>
                     /\ round - probe.last[Stepper] >= FullCharge
                     /\ round - probe.last[Stepper] >= 2]_vars

\* a unit has stunned a second time, FullCharge round updates after the first
C19_Witness ==
    /\ actor # NoOne
    /\ Len(out) = 1
    /\ out[1].kind = "STUN"
    /\ probe.gap[actor] = FullCharge
    /\ busters[actor].stun_charge = 0

=============================================================================
